---- MODULE Spec2Model ----
(***************************************************************************)
(* A model of package postcodesio (src/postcodesio.go): Geocode and the    *)
(* functions it calls, geocodeURL, decodePayload, errorFromHTTPCode and    *)
(* decorateGeocodingError.                                                 *)
(*                                                                         *)
(* A Go string that the code inspects byte by byte (the postcode, the URL) *)
(* is a sequence of one-character strings.  An error message is a sequence *)
(* of text pieces, so that string concatenation is \o.                     *)
(***************************************************************************)
EXTENDS Integers, Sequences, FiniteSets, TLC

\* One call of Geocode (the later of the two copies of the package in
\* src/postcodesio.go, lines 183-375):
\*   pc         where the call is: "idle", "url", "get", "status", "decode", "done"
\*   postcode   the argument
\*   url        the URL geocodeURL returned
\*   resp       the response http.Get returned (r)
\*   bodyState  r.Body: "none" before a response exists, "open", "closed"
\*   stages     the stages the call has run, in order
\*   pt, err    the values the call returns
VARIABLES pc, postcode, url, resp, bodyState, stages, pt, err

vars == <<pc, postcode, url, resp, bodyState, stages, pt, err>>

\* ------------------------------------------------------------------ bounds

\* Longest postcode string enumerated for geocodeURL.
MaxLen == 5
\* Coordinates carried by a response are 0..MaxCoord.
MaxCoord == 2
\* Status codes enumerated for errorFromHTTPCode are -CodeSpan..CodeSpan.
CodeSpan == 510

\* ------------------------------------------------------------------ errors

\* type Error string, and its constants.
NotFound == "Postcode Not Found"
BadRequest == "Bad Request"
ServerError == "Server Error"
NoResults == "No Results"
MultipleResults == "Multiple Results"
InvalidError == "Invalid Error"

\* A Go error value: nil, an Error (kind holds the constant), or the
\* *errorString errors.New makes (s holds the message).
NilError == [type |-> "nil", kind |-> "", s |-> <<>>]
KindError(k) == [type |-> "Error", kind |-> k, s |-> <<>>]
errorsNew(msg) == [type |-> "errorString", kind |-> "", s |-> msg]

errorFromHTTPCode_Swapped(code) ==
    CASE code = 400 -> NotFound
      [] code = 404 -> BadRequest
      [] code = 500 -> ServerError
      [] OTHER -> InvalidError

errorFromHTTPCode(code) ==
    CASE code = 400 -> BadRequest
      [] code = 404 -> NotFound
      [] code = 500 -> ServerError
      [] OTHER -> InvalidError

\* func (e Error) Error() string
ErrorMethod(e) ==
    CASE e = NotFound -> "postcodes.io could not find the requested information (404)"
      [] e = BadRequest -> "postcodes.io rejected the request (400)"
      [] e = ServerError -> "postcodes.io encountered an error (500)"
      [] e = NoResults -> "postcodes.io returned no results for the request"
      [] e = MultipleResults -> "postcodes.io returned multiple results for the request"
      [] OTHER -> "Invalid Error: Please report to poscodesio Go package maintainer"

\* err.Error() of any non-nil error.
ErrorText(e) == IF e.type = "Error" THEN <<ErrorMethod(e.kind)>> ELSE e.s

GeocodePrefix == "postcodes.io: could not geocode postcode: "

decorateGeocodingError_Bare(e) == errorsNew(ErrorText(e))

decorateGeocodingError(e) == errorsNew(<<GeocodePrefix>> \o ErrorText(e))

\* ------------------------------------------------------------------ URLs

baseURL ==
    <<"h", "t", "t", "p", "s", ":", "/", "/",
      "a", "p", "i", ".", "p", "o", "s", "t", "c", "o", "d", "e", "s", ".", "i", "o">>
PostcodesPath == <<"/", "p", "o", "s", "t", "c", "o", "d", "e", "s", "/">>
OutcodesPath == <<"/", "o", "u", "t", "c", "o", "d", "e", "s", "/">>

Digits == {"0", "1", "2", "3", "4", "5", "6", "7", "8", "9"}
UpperHex == {"A", "B", "C", "D", "E", "F"}
LowerHex == {"a", "b", "c", "d", "e", "f"}
Letters ==
    UpperHex \cup LowerHex \cup
    {"G", "H", "I", "J", "K", "L", "M", "N", "O", "P", "Q", "R", "S", "T", "U", "V",
     "W", "X", "Y", "Z", "g", "h", "i", "j", "k", "l", "m", "n", "o", "p", "q", "r",
     "s", "t", "u", "v", "w", "x", "y", "z"}
\* The one control byte of the model (a tab).
CTL == "\t"

ishex(c) == c \in Digits \cup UpperHex \cup LowerHex

HexDigits == Digits \cup UpperHex

\* The upper-case form of a hex digit.
upperHex(c) ==
    CASE c = "a" -> "A"
      [] c = "b" -> "B"
      [] c = "c" -> "C"
      [] c = "d" -> "D"
      [] c = "e" -> "E"
      [] c = "f" -> "F"
      [] OTHER -> c

\* url.unhex of the two digits of an escape %xy: the byte it stands for, the
\* byte itself when the model writes it as a character, otherwise a piece
\* naming the byte.
unhexPair(x, y) ==
    LET X == upperHex(x)
        Y == upperHex(y)
    IN  CASE X = "2" /\ Y = "0" -> " "
          [] X = "2" /\ Y = "5" -> "%"
          [] X = "3" /\ Y = "F" -> "?"
          [] X = "4" /\ Y = "1" -> "A"
          [] X = "0" /\ Y = "9" -> CTL
          [] OTHER -> "<" \o X \o Y \o ">"

\* The escape of a byte, as url.escape writes it: % and two upper-case digits.
hexOf(c) ==
    LET p == CHOOSE q \in HexDigits \X HexDigits : unhexPair(q[1], q[2]) = c
    IN  <<"%", p[1], p[2]>>

HasPrefix(s, p) == Len(s) >= Len(p) /\ SubSeq(s, 1, Len(p)) = p

\* Index of the first c in s, 0 when there is none.
RECURSIVE IndexFrom(_, _, _)
IndexFrom(s, c, i) ==
    IF i > Len(s) THEN 0
    ELSE IF s[i] = c THEN i
    ELSE IndexFrom(s, c, i + 1)
Index(s, c) == IndexFrom(s, c, 1)

Count(s, c) == Cardinality({i \in 1..Len(s) : s[i] = c})

stringContainsCTLByte(s) == \E i \in 1..Len(s) : s[i] = CTL

\* url.shouldEscape(c, encodePath)
shouldEscape(c) ==
    CASE c \in Letters \cup Digits -> FALSE
      [] c \in {"-", "_", ".", "~"} -> FALSE
      [] c \in {"$", "&", "+", "/", ":", "=", "@"} -> FALSE
      [] OTHER -> TRUE

\* url.unescape(s, encodePath): [ok, val]
RECURSIVE unescape(_)
unescape(s) ==
    IF s = <<>> THEN [ok |-> TRUE, val |-> <<>>]
    ELSE IF s[1] = "%" THEN
        IF Len(s) < 3 \/ ~ishex(s[2]) \/ ~ishex(s[3])
        THEN [ok |-> FALSE, val |-> <<>>]
        ELSE LET r == unescape(SubSeq(s, 4, Len(s)))
             IN  [ok |-> r.ok, val |-> <<unhexPair(s[2], s[3])>> \o r.val]
    ELSE LET r == unescape(Tail(s))
         IN  [ok |-> r.ok, val |-> <<s[1]>> \o r.val]

\* url.escape(s, encodePath)
RECURSIVE escape(_)
escape(s) ==
    IF s = <<>> THEN <<>>
    ELSE (IF shouldEscape(s[1]) THEN hexOf(s[1]) ELSE <<s[1]>>) \o escape(Tail(s))

\* url.validEncoded(s, encodePath)
validEncoded(s) ==
    \A i \in 1..Len(s) :
        \/ s[i] \in {"!", "$", "&", "'", "(", ")", "*", "+", ",", ";", "=", ":", "@", "[", "]", "%"}
        \/ ~shouldEscape(s[i])

\* url.URL as ParseRequestURI fills it.
\* url.parse(rawURL, viaRequest = true): [ok, u]
parse(rawURL) ==
    LET colon == Index(rawURL, ":")
        scheme == SubSeq(rawURL, 1, colon - 1)
        afterScheme == SubSeq(rawURL, colon + 1, Len(rawURL))
        force == /\ afterScheme # <<>>
                 /\ afterScheme[Len(afterScheme)] = "?"
                 /\ Count(afterScheme, "?") = 1
        q == Index(afterScheme, "?")
        noQuery == IF force THEN SubSeq(afterScheme, 1, Len(afterScheme) - 1)
                   ELSE IF q = 0 THEN afterScheme
                   ELSE SubSeq(afterScheme, 1, q - 1)
        rawQuery == IF force \/ q = 0 THEN <<>>
                    ELSE SubSeq(afterScheme, q + 1, Len(afterScheme))
        authRest == SubSeq(noQuery, 3, Len(noQuery))
        slash == Index(authRest, "/")
        host == IF slash = 0 THEN authRest ELSE SubSeq(authRest, 1, slash - 1)
        p == IF slash = 0 THEN <<>> ELSE SubSeq(authRest, slash, Len(authRest))
        un == unescape(p)
        bad == [ok |-> FALSE,
                u |-> [Scheme |-> <<>>, Host |-> <<>>, Path |-> <<>>, RawPath |-> <<>>,
                       ForceQuery |-> FALSE, RawQuery |-> <<>>]]
    IN  IF stringContainsCTLByte(rawURL) THEN bad
        ELSE IF ~un.ok THEN bad
        ELSE [ok |-> TRUE,
              u |-> [Scheme |-> scheme, Host |-> host, Path |-> un.val,
                     RawPath |-> IF escape(un.val) = p THEN <<>> ELSE p,
                     ForceQuery |-> force, RawQuery |-> rawQuery]]

\* (*URL).EscapedPath
EscapedPath(u) ==
    IF /\ u.RawPath # <<>>
       /\ validEncoded(u.RawPath)
       /\ unescape(u.RawPath).ok
       /\ unescape(u.RawPath).val = u.Path
    THEN u.RawPath
    ELSE escape(u.Path)

\* (*URL).String
URLString(u) ==
    u.Scheme \o <<":", "/", "/">> \o u.Host \o EscapedPath(u)
        \o (IF u.ForceQuery \/ u.RawQuery # <<>> THEN <<"?">> \o u.RawQuery ELSE <<>>)

\* The request target geocodeURL chooses for pc, before parsing.
rawTarget_Off(p) ==
    IF Len(p) >= 4 THEN baseURL \o PostcodesPath \o p
    ELSE baseURL \o OutcodesPath \o p

rawTarget(p) ==
    IF Len(p) > 4 THEN baseURL \o PostcodesPath \o p
    ELSE baseURL \o OutcodesPath \o p

\* geocodeURL(pc): [result, err]
geocodeURL(p) ==
    LET r == parse(rawTarget(p))
    IN  IF ~r.ok THEN [result |-> <<>>, err |-> errorsNew(<<"parse: invalid URL">>)]
        ELSE [result |-> URLString(r.u), err |-> NilError]

\* ------------------------------------------------------------------ JSON

\* A JSON value under a key of the response body, or the key's absence.
Absent == [t |-> "absent", n |-> 0, s |-> ""]
JNull == [t |-> "null", n |-> 0, s |-> ""]
JNum(n) == [t |-> "num", n |-> n, s |-> ""]
JStr(s) == [t |-> "str", n |-> 0, s |-> s]
JList == [t |-> "list", n |-> 0, s |-> ""]

\* json.Unmarshal of one value into an int or float64 field holding cur.
intoNumber(v, cur) ==
    CASE v.t = "num" -> [val |-> v.n, bad |-> FALSE]
      [] v.t \in {"str", "list"} -> [val |-> cur, bad |-> TRUE]
      [] OTHER -> [val |-> cur, bad |-> FALSE]

\* json.Unmarshal of one value into a string field holding cur.
intoString(v, cur) ==
    CASE v.t = "str" -> [val |-> v.s, bad |-> FALSE]
      [] v.t \in {"num", "list"} -> [val |-> cur, bad |-> TRUE]
      [] OTHER -> [val |-> cur, bad |-> FALSE]

\* json.Unmarshal of one value into an interface{} field: every shape fits.
intoInterface(v) == IF v.t \in {"absent", "null"} THEN "nil" ELSE v.t

\* The zero geocodeResult (the fields the package reads or that vary in
\* shape: Longitude, Latitude, Admin_district).
ZeroResult == [Longitude |-> 0, Latitude |-> 0, Admin_district |-> "nil"]

\* The payload struct of decodePayload, zero-valued.
ZeroPayload == [Status |-> 0, Result |-> ZeroResult, Error |-> ""]

\* jsonDecoder.Decode(&payload) on the body: [payload, err] with err one of
\* "nil", "EOF" (no value in the input), "syntax" (not JSON, nothing stored),
\* "type" (a value of the wrong JSON type: the field is skipped, the rest of
\* the object is still stored, and the error is returned at the end).
jsonDecode(body) ==
    CASE body.kind = "empty" -> [payload |-> ZeroPayload, err |-> "EOF"]
      [] body.kind = "syntax" -> [payload |-> ZeroPayload, err |-> "syntax"]
      [] body.kind = "null" -> [payload |-> ZeroPayload, err |-> "nil"]
      [] OTHER ->
            LET st == intoNumber(body.status, 0)
                er == intoString(body.error, "")
                la == intoNumber(body.latitude, 0)
                lo == intoNumber(body.longitude, 0)
                res == IF body.hasResult
                       THEN [Longitude |-> lo.val, Latitude |-> la.val,
                             Admin_district |-> intoInterface(body.admin_district)]
                       ELSE ZeroResult
                bad == st.bad \/ er.bad \/ (body.hasResult /\ (la.bad \/ lo.bad))
            IN  [payload |-> [Status |-> st.val, Result |-> res, Error |-> er.val],
                 err |-> IF bad THEN "type" ELSE "nil"]

\* The error value Decode returned, after decodePayload has dropped io.EOF.
decodeError(e) ==
    CASE e \in {"nil", "EOF"} -> NilError
      [] e = "syntax" -> errorsNew(<<"invalid character looking for beginning of value">>)
      [] OTHER -> errorsNew(<<"json: cannot unmarshal value into Go struct field">>)

decodePayload_StatusFirst(r) ==
    IF ~r.readable
    THEN [result |-> ZeroResult,
          err |-> errorsNew(<<"could not read http response body: ", "unexpected EOF">>)]
    ELSE LET d == jsonDecode(r.Body)
             e1 == decodeError(d.err)
             e2 == IF e1 = NilError /\ d.payload.Status # 200
                   THEN KindError(errorFromHTTPCode(d.payload.Status)) ELSE e1
             e3 == IF e2 = NilError /\ d.payload.Error # ""
                   THEN errorsNew(<<d.payload.Error>>) ELSE e2
         IN  [result |-> d.payload.Result, err |-> e3]

\* decodePayload(r): [result, err]
decodePayload(r) ==
    IF ~r.readable
    THEN [result |-> ZeroResult,
          err |-> errorsNew(<<"could not read http response body: ", "unexpected EOF">>)]
    ELSE LET d == jsonDecode(r.Body)
             e1 == decodeError(d.err)
             e2 == IF e1 = NilError /\ d.payload.Error # ""
                   THEN errorsNew(<<d.payload.Error>>) ELSE e1
             e3 == IF e2 = NilError /\ d.payload.Status # 200
                   THEN KindError(errorFromHTTPCode(d.payload.Status)) ELSE e2
         IN  [result |-> d.payload.Result, err |-> e3]

\* ------------------------------------------------------------------ inputs

\* The bytes postcodes are made of: a letter (also a hex digit), a space, the
\* escape sign, the query sign and a control byte.
Alphabet == {"A", " ", "%", "?", CTL}

RECURSIVE StringsOfLen(_)
StringsOfLen(n) ==
    IF n = 0 THEN {<<>>}
    ELSE {Append(s, c) : s \in StringsOfLen(n - 1), c \in Alphabet}
Strings(n) == UNION {StringsOfLen(k) : k \in 0..n}

\* The postcodes Geocode is called with: the empty string, an outward code,
\* two full postcodes and two strings no URL can be built from.
SamplePostcodes ==
    {<<>>,
     <<"Z", "Z", "9", "9">>,
     <<"Z", "9", " ", "9", "Z", "Z">>,
     <<"S", "W", "1", "A", " ", "1", "A", "A">>,
     <<"S", "W", "%">>,
     <<"S", "W", "1", "A", CTL, "1", "A", "A">>}

Coords == 0..MaxCoord
CoordValues == {Absent, JStr("x")} \cup {JNum(c) : c \in Coords}
StatusValues == {Absent, JStr("x")} \cup {JNum(c) : c \in {0, 200, 400, 404, 500}}
ErrorValues == {Absent, JStr(""), JStr("not found"), JNum(1)}

NoObject(k) ==
    [kind |-> k, status |-> Absent, error |-> Absent, hasResult |-> FALSE,
     latitude |-> Absent, longitude |-> Absent, admin_district |-> Absent]

\* The response bodies: no bytes, bytes that are not JSON, the JSON null, and
\* the JSON objects with or without the keys status, error and result.
Bodies ==
    {NoObject("empty"), NoObject("syntax"), NoObject("null")}
    \cup [kind : {"object"}, status : StatusValues, error : ErrorValues,
          hasResult : {FALSE}, latitude : {Absent}, longitude : {Absent},
          admin_district : {Absent}]
    \cup [kind : {"object"}, status : StatusValues, error : ErrorValues,
          hasResult : {TRUE}, latitude : CoordValues, longitude : CoordValues,
          admin_district : {JStr("Westminster"), JList}]

HTTPCodes == {200, 400, 404, 500, 503}

\* What http.Get hands back when it does not fail.
Responses == [StatusCode : HTTPCodes, Body : Bodies, readable : BOOLEAN]

NoResponse == [StatusCode |-> 0, Body |-> NoObject("empty"), readable |-> FALSE]
ZeroPoint == [Longitude |-> 0, Latitude |-> 0]

\* ------------------------------------------------------------------ Geocode

Init ==
    /\ pc = "idle"
    /\ postcode = <<>>
    /\ url = <<>>
    /\ resp = NoResponse
    /\ bodyState = "none"
    /\ stages = <<>>
    /\ pt = ZeroPoint
    /\ err = NilError

\* A caller enters Geocode(p).
Call ==
    /\ pc \in {"idle", "done"}
    /\ \E p \in SamplePostcodes : postcode' = p
    /\ pc' = "url"
    /\ url' = <<>>
    /\ resp' = NoResponse
    /\ bodyState' = "none"
    /\ stages' = <<>>
    /\ pt' = ZeroPoint
    /\ err' = NilError

\* url, err := geocodeURL(postcode), and the return on its failure.
BuildURL ==
    /\ pc = "url"
    /\ stages' = Append(stages, "url")
    /\ LET r == geocodeURL(postcode)
       IN  IF r.err # NilError
           THEN /\ err' = decorateGeocodingError(r.err)
                /\ pc' = "done"
                /\ url' = url
           ELSE /\ url' = r.result
                /\ pc' = "get"
                /\ err' = err
    /\ UNCHANGED <<postcode, resp, bodyState, pt>>

\* r, err := http.Get(url): the transport fails, or hands back a response
\* whose body is open; defer r.Body.Close() is then registered.
HttpGet ==
    /\ pc = "get"
    /\ stages' = Append(stages, "get")
    /\ \/ /\ err' = decorateGeocodingError(errorsNew(<<"Get: ", "dial tcp: connection refused">>))
          /\ pc' = "done"
          /\ UNCHANGED <<resp, bodyState>>
       \/ /\ \E r \in Responses : resp' = r
          /\ bodyState' = "open"
          /\ pc' = "status"
          /\ err' = err
    /\ UNCHANGED <<postcode, url, pt>>

\* The deferred r.Body.Close(), run as Geocode returns.
deferredClose_Missing(b) == b

deferredClose(b) == IF b = "open" THEN "closed" ELSE b

CheckStatus_Missing ==
    /\ pc = "status"
    /\ stages' = Append(stages, "status")
    /\ pc' = "decode"
    /\ UNCHANGED <<postcode, url, resp, pt, err, bodyState>>

\* if r.StatusCode != 200 { ... return }
CheckStatus ==
    /\ pc = "status"
    /\ stages' = Append(stages, "status")
    /\ IF resp.StatusCode # 200
       THEN /\ err' = decorateGeocodingError(KindError(errorFromHTTPCode(resp.StatusCode)))
            /\ bodyState' = deferredClose(bodyState)
            /\ pc' = "done"
       ELSE /\ pc' = "decode"
            /\ UNCHANGED <<err, bodyState>>
    /\ UNCHANGED <<postcode, url, resp, pt>>

\* GeoPoint{Longitude: result.Longitude, Latitude: result.Latitude}
GeoPointOf_Swapped(r) == [Longitude |-> r.Latitude, Latitude |-> r.Longitude]

GeoPointOf(r) == [Longitude |-> r.Longitude, Latitude |-> r.Latitude]

\* result, err := decodePayload(r), the decoration of its error and the
\* final return.
Decode ==
    /\ pc = "decode"
    /\ stages' = Append(stages, "decode")
    /\ LET d == decodePayload(resp)
       IN  /\ err' = IF d.err # NilError THEN decorateGeocodingError(d.err) ELSE NilError
           /\ pt' = GeoPointOf(d.result)
    /\ bodyState' = deferredClose(bodyState)
    /\ pc' = "done"
    /\ UNCHANGED <<postcode, url, resp>>

Next == Call \/ BuildURL \/ HttpGet \/ CheckStatus \/ Decode

Spec == Init /\ [][Next]_vars

\* ------------------------------------------------ geocodeURL on its own

\* Geocode has been entered with any string of at most MaxLen bytes.
InitURL ==
    /\ pc = "url"
    /\ postcode \in Strings(MaxLen)
    /\ url = <<>>
    /\ resp = NoResponse
    /\ bodyState = "none"
    /\ stages = <<>>
    /\ pt = ZeroPoint
    /\ err = NilError

SpecURL == InitURL /\ [][BuildURL]_vars

\* ------------------------------------------ errorFromHTTPCode on its own

Codes == (0 - CodeSpan)..CodeSpan

\* http.Get has handed back a response: one with any three-digit status
\* code, or one with status 200 whose envelope carries any status in Codes.
CodeResponses ==
    {[StatusCode |-> c, Body |-> NoObject("empty"), readable |-> TRUE] : c \in 100..CodeSpan}
    \cup {[StatusCode |-> 200,
           Body |-> [NoObject("object") EXCEPT !.status = JNum(c)],
           readable |-> TRUE] : c \in Codes}

InitCode ==
    /\ pc = "status"
    /\ postcode = <<"Z", "Z", "9", "9">>
    /\ url = geocodeURL(postcode).result
    /\ resp \in CodeResponses
    /\ bodyState = "open"
    /\ stages = <<"url", "get">>
    /\ pt = ZeroPoint
    /\ err = NilError

NextCode == CheckStatus \/ Decode

SpecCode == InitCode /\ [][NextCode]_vars

\* ------------------------------------------------ what the claims speak of

\* The kind the specification gives for a status code.
KindFor(c) ==
    IF c = 400 THEN BadRequest
    ELSE IF c = 404 THEN NotFound
    ELSE IF c = 500 THEN ServerError
    ELSE InvalidError

Returned == pc = "done"
GotResponse == Returned /\ Len(stages) >= 2 /\ bodyState # "none"
DecodeRan == Returned /\ Len(stages) = 4 /\ stages[4] = "decode"
\* A body read to its end that is a JSON object whose values all fit the
\* fields they are stored in.
CleanObject(b) ==
    /\ b.kind = "object"
    /\ b.status.t \in {"absent", "null", "num"}
    /\ b.error.t \in {"absent", "null", "str"}
    /\ b.hasResult => /\ b.latitude.t \in {"absent", "null", "num"}
                      /\ b.longitude.t \in {"absent", "null", "num"}
ErrorStringOf(b) == IF b.error.t = "str" THEN b.error.s ELSE ""
\* No URL can be built from p: a control byte, or a % not followed by two
\* hex digits.
BadPostcode(p) ==
    \E i \in 1..Len(p) :
        \/ p[i] = CTL
        \/ /\ p[i] = "%"
           /\ ~(i + 2 <= Len(p) /\ ishex(p[i + 1]) /\ ishex(p[i + 2]))
Decorated(msg) == [type |-> "errorString", kind |-> "", s |-> <<GeocodePrefix>> \o msg]

\* C1: every call returns either a point with a nil error or the zero point
\* with a non-nil error; a failed decode never leaves coordinates in the
\* returned point.
C1_NoPartialSuccess ==
    Returned => (err = NilError \/ pt = ZeroPoint)

\* C2: an HTTP 200 response whose envelope has status 200, no error string
\* and a result with latitude a and longitude b yields the point (a, b),
\* unswapped and unaltered, and a nil error.
C2_SuccessPoint ==
    (/\ DecodeRan
     /\ resp.readable
     /\ resp.Body.kind = "object"
     /\ resp.Body.status = JNum(200)
     /\ resp.Body.error \in {Absent, JStr("")}
     /\ resp.Body.hasResult
     /\ resp.Body.latitude.t = "num"
     /\ resp.Body.longitude.t = "num")
    => /\ pt = [Latitude |-> resp.Body.latitude.n, Longitude |-> resp.Body.longitude.n]
       /\ err = NilError

C2_Witness ==
    /\ DecodeRan
    /\ resp.readable
    /\ resp.Body.kind = "object"
    /\ resp.Body.status = JNum(200)
    /\ resp.Body.error = Absent
    /\ resp.Body.hasResult
    /\ resp.Body.latitude = JNum(2)
    /\ resp.Body.longitude = JNum(1)
    /\ pt = [Latitude |-> 2, Longitude |-> 1]
    /\ err = NilError

\* C3: whenever geocodeURL builds a URL it lies under the base address, on
\* the path /outcodes/ for a string of at most 4 bytes and on /postcodes/ for
\* a longer one, never on the other.
C3_Routing ==
    (pc = "get") =>
        /\ Len(postcode) <= 4 => /\ HasPrefix(url, baseURL \o OutcodesPath)
                                 /\ ~HasPrefix(url, baseURL \o PostcodesPath)
        /\ Len(postcode) > 4 => /\ HasPrefix(url, baseURL \o PostcodesPath)
                                /\ ~HasPrefix(url, baseURL \o OutcodesPath)

C3_Witness ==
    /\ pc = "get"
    /\ postcode = <<"A", " ", "A", "A">>
    /\ url = baseURL \o OutcodesPath \o <<"A", "%", "2", "0", "A", "A">>

\* C4: a response whose HTTP status is not 200 yields the error of that
\* status' kind, behind the prefix, and the zero point, whatever the body is.
C4_NonOKStatus ==
    (GotResponse /\ resp.StatusCode # 200)
    => /\ err = Decorated(<<ErrorMethod(KindFor(resp.StatusCode))>>)
       /\ pt = ZeroPoint
       /\ stages = <<"url", "get", "status">>

C4_Witness ==
    /\ GotResponse
    /\ resp.StatusCode = 404
    /\ resp.readable
    /\ resp.Body.kind = "object"
    /\ resp.Body.status = JNum(200)
    /\ resp.Body.error = Absent
    /\ resp.Body.latitude = JNum(1)
    /\ err = Decorated(<<"postcodes.io could not find the requested information (404)">>)

\* The status a returned call classified: the HTTP status when it is not
\* 200, otherwise the status of the envelope.
ClassifiedCode ==
    IF resp.StatusCode # 200 THEN resp.StatusCode ELSE resp.Body.status.n

C6_EmptyBodyNoError ==
    (DecodeRan /\ resp.readable /\ resp.Body.kind = "empty")
    => (err = NilError /\ pt = ZeroPoint)

\* C7: with no error string, an envelope status that is present and not 200
\* fails with that status' kind; status 200 or an absent status returns the
\* decoded result with no error.
C7_EmbeddedStatus ==
    (DecodeRan /\ resp.readable /\ CleanObject(resp.Body) /\ ErrorStringOf(resp.Body) = "")
    => IF resp.Body.status.t = "num" /\ resp.Body.status.n # 200
       THEN err = Decorated(<<ErrorMethod(KindFor(resp.Body.status.n))>>)
       ELSE err = NilError

\* C8: a non-empty error string e in the envelope of an HTTP 200 response
\* yields the generic error e behind the prefix whatever the envelope's
\* status is; status 404 with "not found" does not yield the kind NotFound.
C8_ErrorStringFirst ==
    (DecodeRan /\ resp.readable /\ CleanObject(resp.Body) /\ ErrorStringOf(resp.Body) # "")
    => /\ err = Decorated(<<ErrorStringOf(resp.Body)>>)
       /\ err # Decorated(<<ErrorMethod(NotFound)>>)

C8_Witness ==
    /\ DecodeRan
    /\ resp.readable
    /\ CleanObject(resp.Body)
    /\ resp.Body.status = JNum(404)
    /\ resp.Body.error = JStr("not found")
    /\ err = Decorated(<<"not found">>)

\* The inputs on which a stage of the call fails.
URLFailure == BadPostcode(postcode)
TransportFailure == Returned /\ stages = <<"url", "get">>
StatusFailure == GotResponse /\ resp.StatusCode # 200
ReadFailure == DecodeRan /\ ~resp.readable
ParseFailure ==
    /\ DecodeRan
    /\ resp.readable
    /\ resp.Body.kind \in {"syntax", "object"}
    /\ ~CleanObject(resp.Body)
EnvelopeErrorFailure ==
    DecodeRan /\ resp.readable /\ CleanObject(resp.Body) /\ ErrorStringOf(resp.Body) # ""
EmbeddedStatusFailure ==
    /\ DecodeRan
    /\ resp.readable
    /\ CleanObject(resp.Body)
    /\ ErrorStringOf(resp.Body) = ""
    /\ resp.Body.status.t = "num"
    /\ resp.Body.status.n # 200

\* C9: a failure of any stage comes back as a non-nil error whose message is
\* the prefix, once, followed by the stage's own message; none comes back as
\* a nil error.
C9_Decorated ==
    Returned =>
        /\ (\/ URLFailure \/ TransportFailure \/ StatusFailure \/ ReadFailure
            \/ ParseFailure \/ EnvelopeErrorFailure \/ EmbeddedStatusFailure)
           => err # NilError
        /\ err # NilError =>
              /\ err.type = "errorString"
              /\ Len(err.s) >= 2
              /\ err.s[1] = GeocodePrefix
              /\ \A i \in 2..Len(err.s) : err.s[i] # GeocodePrefix
        /\ URLFailure => Len(err.s) = 2 /\ stages = <<"url">>
        /\ TransportFailure => Tail(err.s) = <<"Get: ", "dial tcp: connection refused">>
        /\ StatusFailure => Tail(err.s) = <<ErrorMethod(KindFor(resp.StatusCode))>>
        /\ ReadFailure => Tail(err.s) = <<"could not read http response body: ", "unexpected EOF">>
        /\ ParseFailure => Len(err.s) = 2
        /\ EnvelopeErrorFailure => Tail(err.s) = <<ErrorStringOf(resp.Body)>>
        /\ EmbeddedStatusFailure => Tail(err.s) = <<ErrorMethod(KindFor(resp.Body.status.n))>>

C9_Witness ==
    /\ ReadFailure
    /\ err = Decorated(<<"could not read http response body: ", "unexpected EOF">>)

IsPrefixOf(s, t) == Len(s) <= Len(t) /\ SubSeq(t, 1, Len(s)) = s

\* C10: the stages run in the order URL build, GET, status check, decode,
\* each at most once; no GET follows a failed URL build; the body is decoded
\* only after a GET that answered 200; the first failing stage ends the
\* call; and a response that was received has its body closed on return.
C10_StageOrder ==
    /\ IsPrefixOf(stages, <<"url", "get", "status", "decode">>)
    /\ Cardinality({i \in 1..Len(stages) : stages[i] = "get"}) <= 1
    /\ (Len(stages) >= 1 /\ BadPostcode(postcode)) => (Returned /\ stages = <<"url">>)
    /\ (Len(stages) = 4) => (bodyState # "none" /\ resp.StatusCode = 200)
    /\ (Len(stages) >= 3) => bodyState # "none"
    /\ StatusFailure => stages = <<"url", "get", "status">>
    /\ (bodyState = "none") => resp = NoResponse
    /\ (Returned /\ bodyState # "none") => bodyState = "closed"
    /\ (~Returned) => bodyState # "closed"

C10_Witness ==
    /\ Returned
    /\ stages = <<"url", "get", "status", "decode">>
    /\ bodyState = "closed"
    /\ resp.StatusCode = 200
    /\ err # NilError

====
